---------------------------- MODULE Spec2Model ----------------------------
(***************************************************************************)
(* Model of the clustering strategies of function_cluster.py and of the    *)
(* EfficiencyRatioAnalysis pipeline of efr_classification.py.              *)
(*                                                                         *)
(* Conventions.                                                            *)
(*  - A Python value that may be None is a set: {} is None, {v} is v.      *)
(*  - A matrix is a record [rows, den]: rows is a sequence of rows, a row  *)
(*    a sequence of integer numerators, den the per-column denominator.    *)
(*    The cell (i, j) stands for rows[i][j] / den[j]; the numerator NaN    *)
(*    marks an undefined cell (float NaN).                                 *)
(*  - The numeric libraries (scikit-learn, yellowbrick, numpy, pandas,     *)
(*    pandas_ta) are modelled by what the calls in the source rely on:     *)
(*    when a call raises, and the shape of what it returns.                *)
(***************************************************************************)
EXTENDS Integers, Sequences, FiniteSets, TLC

----------------------------------------------------------------------------
(* Bounds of the model *)

\* Largest number of rows of an input matrix X.
MaxRows == 4

\* Largest feature value (numerator) of an input matrix X.
MaxVal == 1

\* Largest information-criterion score a mixture sweep may report.
MaxScore == 1

----------------------------------------------------------------------------
(* Python values *)

None == {}

Some(v) == {v}

IsNone(o) == o = {}

Get(o) == CHOOSE v \in o : TRUE

NaN == -1

\* Result of a call: nothing yet, a label sequence, an estimator object,
\* an integer, or a raised exception.
NoRet == [tag |-> "none", labels |-> <<>>, k |-> 0, msg |-> ""]

RetLabels(l) == [tag |-> "labels", labels |-> l, k |-> 0, msg |-> ""]

RetEstimator(m) == [tag |-> "estimator", labels |-> m.labels, k |-> Get(m.k), msg |-> ""]

RetInt(n) == [tag |-> "int", labels |-> <<>>, k |-> n, msg |-> ""]

RetNone == [tag |-> "void", labels |-> <<>>, k |-> 0, msg |-> ""]

Raise(m) == [tag |-> "error", labels |-> <<>>, k |-> 0, msg |-> m]

\* The exception messages of the source.
MsgFitFirst == "El modelo debe ser ajustado antes de hacer predicciones. Llama a fit(X) primero."

MsgNoOptimalClusters == "El modelo debe ser ajustado antes de obtener el numero optimo de clusters."

MsgNoOptimalComponents == "El modelo debe ser ajustado antes de obtener el numero optimo de componentes."

MsgCriterion == "El criterio debe ser 'aic' o 'bic'"

\* Exceptions raised by the libraries, named by their cause.
MsgLibFit == "library: estimator cannot be fitted (count not in 1..n_samples, or NaN in X)"

MsgArgminEmpty == "numpy: attempt to get argmin of an empty sequence"

MsgElbowSweep == "yellowbrick: elbow sweep failed"

MsgNotFitted == "sklearn: this instance is not fitted yet"

----------------------------------------------------------------------------
(* Arithmetic helpers *)

RECURSIVE SumSeq(_)
SumSeq(s) == IF s = <<>> THEN 0 ELSE Head(s) + SumSeq(Tail(s))

RECURSIVE ProdSeq(_)
ProdSeq(s) == IF s = <<>> THEN 1 ELSE Head(s) * ProdSeq(Tail(s))

RECURSIVE Fact(_)
Fact(n) == IF n <= 1 THEN 1 ELSE n * Fact(n - 1)

RECURSIVE SumOver(_, _)
SumOver(S, f) ==
  IF S = {} THEN 0
  ELSE LET x == CHOOSE y \in S : TRUE IN f[x] + SumOver(S \ {x}, f)

\* The sequence s itself, with its elements evaluated once.
Eager(s) == SubSeq(s, 1, Len(s))

\* range(a, b) of Python: a, a+1, ..., b-1.
Range(a, b) == [i \in 1..(IF b > a THEN b - a ELSE 0) |-> a + i - 1]

\* numpy.diff of a sequence: the consecutive differences (empty for fewer
\* than two elements).
Diff(w) == [i \in 1..(IF Len(w) >= 1 THEN Len(w) - 1 ELSE 0) |-> w[i + 1] - w[i]]

\* The 1-based position of the first minimum of s from position i on, given
\* that the first minimum before i is at position best.
RECURSIVE FirstMinFrom(_, _, _)
FirstMinFrom(s, i, best) ==
  IF i > Len(s) THEN best
  ELSE FirstMinFrom(s, i + 1, IF s[i] < s[best] THEN i ELSE best)

\* numpy.argmin of a non-empty sequence: the 0-based index of the first
\* occurrence of the minimum.
ArgMin(s) == FirstMinFrom(s, 2, 1) - 1

----------------------------------------------------------------------------
(* Matrices *)

NRows(X) == Len(X.rows)

NCols(X) == Len(X.den)

HasNaN(X) == \E i \in 1..NRows(X) : \E j \in 1..NCols(X) : X.rows[i][j] = NaN

\* Weight of column j in a squared distance scaled by the product of all
\* squared denominators.
ColWeight(X, j) ==
  ProdSeq([i \in 1..NCols(X) |-> IF i = j THEN 1 ELSE X.den[i] * X.den[i]])

\* The weights of the columns of X.
Weights(X) == Eager([j \in 1..NCols(X) |-> ColWeight(X, j)])

\* Squared Euclidean distance between two rows of a matrix with the column
\* weights w, scaled by the product of the squared denominators: the sum
\* over the columns from j on.
RECURSIVE Dist2From(_, _, _, _)
Dist2From(w, a, b, j) ==
  IF j > Len(w) THEN 0
  ELSE w[j] * (a[j] - b[j]) * (a[j] - b[j]) + Dist2From(w, a, b, j + 1)

Dist2(w, a, b) == Dist2From(w, a, b, 1)

\* Column sum of the rows with index in A.
ColSum(X, A, j) == SumOver(A, [r \in A |-> X.rows[r][j]])

ColSumSq(X, A, j) == SumOver(A, [r \in A |-> X.rows[r][j] * X.rows[r][j]])


----------------------------------------------------------------------------
(* The estimators of scikit-learn, as the strategies use them.  A fitted    *)
(* estimator is a record [k, fitted, centers, labels]: the number of        *)
(* clusters it was built with, whether fit returned, the centres (empty for *)
(* the hierarchical estimator, which keeps none) and labels_, the labels of *)
(* the rows it was fitted on.                                               *)

\* Whether the estimator of a strategy class accepts the count k for the
\* samples of X: k in 1..n_samples, and two samples at least for the
\* hierarchical estimator.
SampleCountOk(cls, X, k) ==
  /\ k >= 1
  /\ k <= NRows(X)
  /\ cls = "Agglomerative" => NRows(X) >= 2

\* KMeans(n_clusters=k).fit(X) and GaussianMixture(n_components=k).fit(X)
\* raise unless k is an integer in 1..n_samples and X holds no NaN.
LibCanFit(X, k) ==
  /\ ~IsNone(k)
  /\ SampleCountOk("KMeans", X, Get(k))
  /\ ~HasNaN(X)

\* AgglomerativeClustering(n_clusters=k).fit(X) needs two samples besides.
AggloCanFit(X, k) ==
  /\ ~IsNone(k)
  /\ SampleCountOk("Agglomerative", X, Get(k))
  /\ ~HasNaN(X)

\* Row indices of X, the first occurrence of every distinct row first.
SeedOrder(X) ==
  LET idx == Range(1, NRows(X) + 1)
      IsFirst(i) == \A j \in 1..(i - 1) : X.rows[j] # X.rows[i]
  IN SelectSeq(idx, LAMBDA i : IsFirst(i)) \o SelectSeq(idx, LAMBDA i : ~IsFirst(i))

\* The k centres of a seeded fit: a deterministic function of X and k (the
\* random_state is fixed), each centre one of the rows of X (k-means++
\* seeding draws the centres among the rows).
LibCenters(X, k) ==
  LET order == SeedOrder(X) IN Eager([c \in 1..k |-> X.rows[order[c]]])

\* The squared distances of a row to the centres, as a sequence.
RECURSIVE CenterDistances(_, _, _)
CenterDistances(w, row, centers) ==
  IF centers = <<>> THEN <<>>
  ELSE <<Dist2(w, row, Head(centers))>> \o CenterDistances(w, row, Tail(centers))

\* predict of KMeans / GaussianMixture: for every row the 0-based index of
\* the nearest centre, the first one on ties (argmin).
NearestLabels(X, centers) ==
  LET w == Weights(X)
  IN Eager([i \in 1..NRows(X) |-> ArgMin(CenterDistances(w, X.rows[i], centers))])

CenterModel(X, k) ==
  LET cs == LibCenters(X, k)
  IN [k |-> Some(k), fitted |-> TRUE, centers |-> cs, labels |-> NearestLabels(X, cs)]

\* An estimator as its constructor leaves it: the count it was given (which
\* the constructor does not check), nothing fitted.
UnfittedEstimator(k) == [k |-> k, fitted |-> FALSE, centers |-> <<>>, labels |-> <<>>]

\* Ward linkage.  A partition of the row indices is a sequence of clusters
\* (sets of indices) in the order of their first row.  The increase of the
\* within-cluster sum of squares when two clusters of sizes na, nb and
\* column sums sa, sb are merged is WardNum / WardDen.
WardNum(X, na, sa, nb, sb) ==
  SumSeq([j \in 1..NCols(X) |->
     ColWeight(X, j) * (nb * sa[j] - na * sb[j]) * (nb * sa[j] - na * sb[j])])

WardDen(na, nb) == na * nb * (na + nb)

\* The partition with the clusters at positions a < b merged.
MergeAt(P, a, b) ==
  Eager([i \in 1..(Len(P) - 1) |->
     IF i = a THEN P[a] \cup P[b] ELSE IF i < b THEN P[i] ELSE P[i + 1]])

\* The merge cost <<numerator, denominator>> of the clusters A and B.
WardCost(X, A, B) ==
  <<WardNum(X, Cardinality(A), [j \in 1..NCols(X) |-> ColSum(X, A, j)],
               Cardinality(B), [j \in 1..NCols(X) |-> ColSum(X, B, j)]),
    WardDen(Cardinality(A), Cardinality(B))>>

\* The pairs of positions a < b of a partition of n clusters, in
\* lexicographic order.
RECURSIVE PairsFrom(_, _, _)
PairsFrom(n, a, b) ==
  IF a >= n THEN <<>>
  ELSE IF b > n THEN PairsFrom(n, a + 1, a + 2)
  ELSE <<<<a, b>>>> \o PairsFrom(n, a, b + 1)

\* The cheapest of the pairs ps to merge, the first one on ties; best is the
\* cheapest pair so far and cost its cost.
RECURSIVE CheapestPair(_, _, _, _, _)
CheapestPair(X, P, ps, best, cost) ==
  IF ps = <<>> THEN best
  ELSE LET p == Head(ps)
           c == WardCost(X, P[p[1]], P[p[2]])
       IN IF c[1] * cost[2] < cost[1] * c[2]
          THEN CheapestPair(X, P, Tail(ps), p, c)
          ELSE CheapestPair(X, P, Tail(ps), best, cost)

\* One step of the linkage: the partition with its cheapest pair merged.
WardStep(X, P) ==
  LET ps == PairsFrom(Len(P), 1, 2)
      best == CheapestPair(X, P, Tail(ps), Head(ps), WardCost(X, P[1], P[2]))
  IN MergeAt(P, best[1], best[2])

\* The linkage tree of X as the sequence of its partitions: the singletons
\* first, then one merge at a time down to a single cluster.
RECURSIVE WardChainFrom(_, _)
WardChainFrom(X, P) ==
  IF Len(P) <= 1 THEN <<P>> ELSE <<P>> \o WardChainFrom(X, WardStep(X, P))

WardChain(X) == WardChainFrom(X, [i \in 1..NRows(X) |-> {i}])

\* The partition of the rows of X into k clusters, 1 <= k <= NRows(X): the
\* tree cut at k clusters.
RECURSIVE WardMerge(_, _, _)
WardMerge(X, P, k) ==
  IF Len(P) <= k \/ Len(P) <= 1 THEN P ELSE WardMerge(X, WardStep(X, P), k)

WardPartition(X, k) == WardMerge(X, [i \in 1..NRows(X) |-> {i}], k)

\* labels_ of the hierarchical estimator: the 0-based position of the
\* cluster of each row.
PartitionLabels(X, P) ==
  Eager([i \in 1..NRows(X) |-> (CHOOSE a \in 1..Len(P) : i \in P[a]) - 1])

AggloModel(X, k) ==
  [k |-> Some(k), fitted |-> TRUE, centers |-> <<>>,
   labels |-> PartitionLabels(X, WardPartition(X, k))]

----------------------------------------------------------------------------
(* The strategy objects.  A strategy is a record                            *)
(*   cls               "KMeans" | "GMM" | "Agglomerative"                   *)
(*   max_clusters      max_clusters (max_components of GMMClustering)       *)
(*   n_clusters        n_clusters (n_components), None when not pinned      *)
(*   criterion         criterion of GMMClustering                           *)
(*   optimal_clusters  optimal_clusters (optimal_components)                *)
(*   model             the fitted estimator: kmeans / gmm / model           *)
(* A method is an operator from the object (and its arguments) to          *)
(*   [self, raised, ret, swept]: the object afterwards, the message of the  *)
(*   exception raised ("" when none), the value returned, and the counts    *)
(*   for which the call scored a candidate model.                           *)

KMeansClustering(max_clusters, n_clusters) ==
  [cls |-> "KMeans", max_clusters |-> max_clusters, n_clusters |-> n_clusters,
   criterion |-> "", optimal_clusters |-> None, model |-> None]

GMMClustering(max_components, criterion, n_components) ==
  [cls |-> "GMM", max_clusters |-> max_components, n_clusters |-> n_components,
   criterion |-> criterion, optimal_clusters |-> None, model |-> None]

AgglomerativeClusteringOptimal(max_clusters, n_clusters) ==
  [cls |-> "Agglomerative", max_clusters |-> max_clusters, n_clusters |-> n_clusters,
   criterion |-> "", optimal_clusters |-> None, model |-> None]

Returned(s, v, sw) == [self |-> s, raised |-> "", ret |-> v, swept |-> sw]

Raised(s, m, sw) == [self |-> s, raised |-> m, ret |-> Raise(m), swept |-> sw]

\* The longest prefix of the candidate counts ks whose estimators can be
\* fitted on X: the candidates a sweep gets through before one raises.
RECURSIVE FittedCounts(_, _, _)
FittedCounts(cls, X, ks) ==
  IF ks = <<>> \/ ~SampleCountOk(cls, X, Head(ks)) THEN <<>>
  ELSE <<Head(ks)>> \o FittedCounts(cls, X, Tail(ks))

FittedPrefix(cls, X, ks) == IF HasNaN(X) THEN <<>> ELSE FittedCounts(cls, X, ks)

\* ---- KMeansClustering ----------------------------------------------------

\* The candidate counts of KElbowVisualizer(model, k=(2, max_clusters)):
\* a tuple is taken as range(2, max_clusters).
KElbowValues(s) == Range(2, s.max_clusters)

\* Whether visualizer.fit(X) gets to locating the elbow: it fits one KMeans
\* per candidate count, and needs a score curve to search.
KElbowRuns(s, X) ==
  /\ KElbowValues(s) # <<>>
  /\ FittedPrefix(s.cls, X, KElbowValues(s)) = KElbowValues(s)

\* What visualizer.elbow_value_ may be after a sweep: one of the candidate
\* counts, or None when no knee is detected.
KElbowOutcomes(s) == {None} \cup {Some(KElbowValues(s)[i]) : i \in 1..Len(KElbowValues(s))}

\* fit, the final part: build the KMeans with optimal_clusters, assign it to
\* self.kmeans, and fit it.  When the fit raises, self.kmeans is the
\* estimator not fitted.
KMeansFinalFit(s, X, sw) ==
  IF LibCanFit(X, s.optimal_clusters)
  THEN Returned([s EXCEPT !.model = Some(CenterModel(X, Get(s.optimal_clusters)))],
                RetNone, sw)
  ELSE Raised([s EXCEPT !.model = Some(UnfittedEstimator(s.optimal_clusters))],
              MsgLibFit, sw)

\* A fit that tests the pinned count for truth instead of "is None": a
\* pinned count of 0 is swept over like no count at all.
KMeansClustering_fit_truthy(s, X, elbow) ==
  IF IsNone(s.n_clusters) \/ s.n_clusters = Some(0)
  THEN IF KElbowRuns(s, X)
       THEN KMeansFinalFit([s EXCEPT !.optimal_clusters = elbow], X, KElbowValues(s))
       ELSE Raised(s, MsgElbowSweep, FittedPrefix(s.cls, X, KElbowValues(s)))
  ELSE KMeansFinalFit([s EXCEPT !.optimal_clusters = s.n_clusters], X, <<>>)

\* fit(X); elbow is what the elbow locator answers for X, if it is asked.
KMeansClustering_fit(s, X, elbow) ==
  IF IsNone(s.n_clusters)
  THEN IF KElbowRuns(s, X)
       THEN KMeansFinalFit([s EXCEPT !.optimal_clusters = elbow], X, KElbowValues(s))
       ELSE Raised(s, MsgElbowSweep, FittedPrefix(s.cls, X, KElbowValues(s)))
  ELSE KMeansFinalFit([s EXCEPT !.optimal_clusters = s.n_clusters], X, <<>>)

KMeansClustering_predict(s, X) ==
  IF IsNone(s.model)
  THEN Raised(s, MsgFitFirst, <<>>)
  ELSE IF ~Get(s.model).fitted
       THEN Raised(s, MsgNotFitted, <<>>)
       ELSE IF HasNaN(X)
       THEN Raised(s, MsgLibFit, <<>>)
       ELSE Returned(s, RetLabels(NearestLabels(X, Get(s.model).centers)), <<>>)

KMeansClustering_fit_predict(s, X, elbow) ==
  LET f == KMeansClustering_fit(s, X, elbow)
  IN IF f.raised # "" THEN f
     ELSE LET p == KMeansClustering_predict(f.self, X)
          IN [p EXCEPT !.swept = f.swept]

KMeansClustering_get_optimal_clusters(s) ==
  IF IsNone(s.optimal_clusters)
  THEN Raised(s, MsgNoOptimalClusters, <<>>)
  ELSE Returned(s, RetInt(Get(s.optimal_clusters)), <<>>)

\* ---- GMMClustering -------------------------------------------------------

\* fit, the final part: build the GaussianMixture with optimal_components.
GMMFinalFit(s, X, sw) ==
  IF LibCanFit(X, s.optimal_clusters)
  THEN Returned([s EXCEPT !.model = Some(CenterModel(X, Get(s.optimal_clusters)))],
                RetNone, sw)
  ELSE Raised([s EXCEPT !.model = Some(UnfittedEstimator(s.optimal_clusters))],
              MsgLibFit, sw)

\* The component counts of the sweep: range(1, max_components + 1).
GMMSweepValues(s) == Range(1, s.max_clusters + 1)

\* Whether the sweep scores every candidate: every mixture can be fitted and
\* the criterion is one of the two the loop knows.
GMMSweepRuns(s, X) ==
  /\ s.criterion \in {"aic", "bic"}
  /\ FittedPrefix(s.cls, X, GMMSweepValues(s)) = GMMSweepValues(s)

\* A fit that forgets that argmin is 0-based: the selected count is the
\* index of the minimal score, not the index plus one.
GMMClustering_fit_index(s, X, criterions) ==
  IF IsNone(s.n_clusters)
  THEN IF GMMSweepValues(s) = <<>>
       THEN Raised(s, MsgArgminEmpty, <<>>)
       ELSE IF ~GMMSweepRuns(s, X)
       THEN Raised(s, MsgLibFit, FittedPrefix(s.cls, X, GMMSweepValues(s)))
       ELSE GMMFinalFit([s EXCEPT !.optimal_clusters = Some(ArgMin(criterions))],
                        X, GMMSweepValues(s))
  ELSE GMMFinalFit([s EXCEPT !.optimal_clusters = s.n_clusters], X, <<>>)

\* fit(X); criterions[n] is what gmm.aic(X) / gmm.bic(X) answers for the
\* mixture of n components, if it is asked.
GMMClustering_fit(s, X, criterions) ==
  IF IsNone(s.n_clusters)
  THEN IF GMMSweepValues(s) = <<>>
       THEN Raised(s, MsgArgminEmpty, <<>>)
       ELSE IF ~LibCanFit(X, Some(1))
       THEN Raised(s, MsgLibFit, <<>>)
       ELSE IF s.criterion \notin {"aic", "bic"}
       THEN Raised(s, MsgCriterion, <<>>)
       ELSE IF ~GMMSweepRuns(s, X)
       THEN Raised(s, MsgLibFit, FittedPrefix(s.cls, X, GMMSweepValues(s)))
       ELSE GMMFinalFit([s EXCEPT !.optimal_clusters = Some(ArgMin(criterions) + 1)],
                        X, GMMSweepValues(s))
  ELSE GMMFinalFit([s EXCEPT !.optimal_clusters = s.n_clusters], X, <<>>)

GMMClustering_predict(s, X) ==
  IF IsNone(s.model)
  THEN Raised(s, MsgFitFirst, <<>>)
  ELSE IF ~Get(s.model).fitted
       THEN Raised(s, MsgNotFitted, <<>>)
       ELSE IF HasNaN(X)
       THEN Raised(s, MsgLibFit, <<>>)
       ELSE Returned(s, RetLabels(NearestLabels(X, Get(s.model).centers)), <<>>)

GMMClustering_fit_predict(s, X, criterions) ==
  LET f == GMMClustering_fit(s, X, criterions)
  IN IF f.raised # "" THEN f
     ELSE LET p == GMMClustering_predict(f.self, X)
          IN [p EXCEPT !.swept = f.swept]

GMMClustering_get_optimal_components(s) ==
  IF IsNone(s.optimal_clusters)
  THEN Raised(s, MsgNoOptimalComponents, <<>>)
  ELSE Returned(s, RetInt(Get(s.optimal_clusters)), <<>>)

\* ---- AgglomerativeClusteringOptimal --------------------------------------

\* The within-cluster sum of squares of the partition P of the rows of X,
\* scaled by NRows(X)! and by the product of the squared denominators:
\* for each cluster, sum |x|^2 - |sum x|^2 / size.
PartitionWCSS(X, P) ==
  LET L == Fact(NRows(X))
      Wc(A) == SumSeq([j \in 1..NCols(X) |->
                 ColWeight(X, j) * (L * ColSumSq(X, A, j)
                    - (L \div Cardinality(A)) * ColSum(X, A, j) * ColSum(X, A, j))])
  IN SumSeq([a \in 1..Len(P) |-> Wc(P[a])])

\* calculate_wcss(data), when every clustering of the loop can be fitted:
\* the WCSS for n_clusters = 1..max_clusters.
calculate_wcss(s, data) ==
  LET tree == WardChain(data)
  IN Eager([i \in 1..Len(Range(1, s.max_clusters + 1)) |->
        PartitionWCSS(data, tree[NRows(data) - i + 1])])

\* Whether calculate_wcss(data) completes: every clustering can be fitted.
WcssRuns(s, data) ==
  FittedPrefix(s.cls, data, Range(1, s.max_clusters + 1)) = Range(1, s.max_clusters + 1)

\* The elbow of a WCSS curve: np.argmin(np.diff(np.diff(wcss))) + 2, or None
\* where argmin raises because the second derivative is empty.
ElbowPoint(wcss) ==
  LET first_derivative == Diff(wcss)
      second_derivative == Diff(first_derivative)
  IN IF second_derivative = <<>> THEN None ELSE Some(ArgMin(second_derivative) + 2)

\* An elbow that accounts for one finite difference only: argmin + 1.
find_optimal_clusters_offset1(s, data) ==
  LET second_derivative == Diff(Diff(calculate_wcss(s, data)))
  IN IF second_derivative = <<>> THEN None ELSE Some(ArgMin(second_derivative) + 1)

\* find_optimal_clusters(data), when calculate_wcss completes: the elbow
\* point, or None where argmin raises.
find_optimal_clusters(s, data) == ElbowPoint(calculate_wcss(s, data))

AggloFinalFit(s, X, sw) ==
  IF AggloCanFit(X, s.optimal_clusters)
  THEN Returned([s EXCEPT !.model = Some(AggloModel(X, Get(s.optimal_clusters)))],
                RetNone, sw)
  ELSE Raised([s EXCEPT !.model = Some(UnfittedEstimator(s.optimal_clusters))],
              MsgLibFit, sw)

AgglomerativeClusteringOptimal_fit(s, X) ==
  IF IsNone(s.n_clusters)
  THEN IF ~WcssRuns(s, X)
       THEN Raised(s, MsgLibFit, FittedPrefix(s.cls, X, Range(1, s.max_clusters + 1)))
       ELSE LET elbow_point == find_optimal_clusters(s, X)
            IN IF IsNone(elbow_point)
               THEN Raised(s, MsgArgminEmpty, Range(1, s.max_clusters + 1))
               ELSE AggloFinalFit([s EXCEPT !.optimal_clusters = elbow_point],
                                  X, Range(1, s.max_clusters + 1))
  ELSE AggloFinalFit([s EXCEPT !.optimal_clusters = s.n_clusters], X, <<>>)

\* A predict that fits a model of its own when there is none.
AgglomerativeClusteringOptimal_predict_autofit(s, X) ==
  LET k == IF IsNone(s.model) THEN Some(1) ELSE Get(s.model).k
  IN IF ~AggloCanFit(X, k)
     THEN Raised(s, MsgLibFit, <<>>)
     ELSE LET m == AggloModel(X, Get(k))
          IN Returned([s EXCEPT !.model = Some(m)], RetEstimator(m), <<>>)

\* predict(X) returns self.model.fit(X): the estimator, fitted again on X.
AgglomerativeClusteringOptimal_predict(s, X) ==
  IF IsNone(s.model)
  THEN Raised(s, MsgFitFirst, <<>>)
  ELSE IF ~AggloCanFit(X, Get(s.model).k)
       THEN Raised(s, MsgLibFit, <<>>)
       ELSE LET m == AggloModel(X, Get(Get(s.model).k))
            IN Returned([s EXCEPT !.model = Some(m)], RetEstimator(m), <<>>)

\* fit_predict(X) returns self.predict(X).labels_.
AgglomerativeClusteringOptimal_fit_predict(s, X) ==
  LET f == AgglomerativeClusteringOptimal_fit(s, X)
  IN IF f.raised # "" THEN f
     ELSE LET p == AgglomerativeClusteringOptimal_predict(f.self, X)
          IN IF p.raised # "" THEN [p EXCEPT !.swept = f.swept]
             ELSE Returned(p.self, RetLabels(p.ret.labels), f.swept)

AgglomerativeClusteringOptimal_get_optimal_clusters(s) ==
  IF IsNone(s.optimal_clusters)
  THEN Raised(s, MsgNoOptimalClusters, <<>>)
  ELSE Returned(s, RetInt(Get(s.optimal_clusters)), <<>>)

----------------------------------------------------------------------------
(* The strategies as a state machine: one strategy object, constructed in   *)
(* Init, on which a caller calls fit, predict, fit_predict and              *)
(* get_optimal_clusters / get_optimal_components in any order, always with  *)
(* the same matrix X.                                                       *)

VARIABLES
  self,         \* the strategy object
  X,            \* the matrix the caller passes to every call
  op,           \* the method called last ("new" after construction)
  ret,          \* what that call returned or raised
  swept,        \* the counts for which that call scored a candidate model
  lib,          \* what the seeded libraries answered for X so far
  fit_called,   \* whether fit or fit_predict was ever called
  run           \* the analysis run (see below)

vars == <<self, X, op, ret, swept, lib, fit_called, run>>

\* Non-decreasing sequences of length n over 0..MaxVal.
RECURSIVE SortedSeqs(_)
SortedSeqs(n) ==
  IF n = 0 THEN {<<>>}
  ELSE {Append(s, v) : s \in SortedSeqs(n - 1), v \in 0..MaxVal} \cap
       {s \in [1..n -> 0..MaxVal] : \A i \in 1..(n - 1) : s[i] <= s[i + 1]}

\* The input matrices: one column, 1..MaxRows rows, no NaN.  The rows are in
\* non-decreasing order and the smallest value is 0 (the estimators read
\* differences of rows only).
Inputs ==
  {[rows |-> [i \in 1..Len(s) |-> <<s[i]>>], den |-> <<1>>] :
     s \in {u \in UNION {SortedSeqs(n) : n \in 1..MaxRows} : u[1] = 0}}

Counts == 0..MaxRows

Pinned == {None} \cup {Some(k) : k \in Counts}

Strategies ==
  {KMeansClustering(m, n) : m \in Counts, n \in Pinned}
    \cup {GMMClustering(m, c, n) : m \in Counts, c \in {"aic", "bic", "hqc"}, n \in Pinned}
    \cup {AgglomerativeClusteringOptimal(m, n) : m \in Counts, n \in Pinned}

\* The libraries have answered nothing yet.
LibInit == [elbow_known |-> FALSE, elbow |-> None,
            criterions_known |-> FALSE, criterions |-> <<>>]

\* The analysis pipeline is not part of this state machine.
NoRun == [pc |-> "off"]

Init ==
  /\ self \in Strategies
  /\ X \in Inputs
  /\ op = "new"
  /\ ret = NoRet
  /\ swept = <<>>
  /\ lib = LibInit
  /\ fit_called = FALSE
  /\ run = NoRun

\* The answers the elbow locator may give to a fit of s on M: the one it
\* gave before (the seed is fixed), any outcome the first time.
ElbowAnswers(s, M) ==
  IF s.cls = "KMeans" /\ IsNone(s.n_clusters) /\ KElbowRuns(s, M) /\ ~lib.elbow_known
  THEN KElbowOutcomes(s)
  ELSE {lib.elbow}

\* The score curves the mixtures may report to a fit of s on M.
CriterionAnswers(s, M) ==
  IF s.cls = "GMM" /\ IsNone(s.n_clusters) /\ GMMSweepRuns(s, M)
     /\ GMMSweepValues(s) # <<>> /\ ~lib.criterions_known
  THEN [1..Len(GMMSweepValues(s)) -> 0..MaxScore]
  ELSE {lib.criterions}

\* The libraries after a fit of s on M that was answered elbow / criterions.
LibAfter(s, M, elbow, criterions) ==
  [elbow_known |-> lib.elbow_known
                     \/ (s.cls = "KMeans" /\ IsNone(s.n_clusters) /\ KElbowRuns(s, M)),
   elbow |-> elbow,
   criterions_known |-> lib.criterions_known
                     \/ (s.cls = "GMM" /\ IsNone(s.n_clusters) /\ GMMSweepRuns(s, M)
                          /\ GMMSweepValues(s) # <<>>),
   criterions |-> criterions]

\* The effect of a call with outcome r on the state.
Call(name, r) ==
  /\ self' = r.self
  /\ op' = name
  /\ ret' = r.ret
  /\ swept' = r.swept
  /\ fit_called' = (fit_called \/ name \in {"fit", "fit_predict"})
  /\ UNCHANGED <<X, run>>

KMeansFit ==
  /\ self.cls = "KMeans"
  /\ \E e \in ElbowAnswers(self, X) :
       \E r \in {KMeansClustering_fit(self, X, e)} :
         /\ Call("fit", r)
         /\ lib' = LibAfter(self, X, e, lib.criterions)

KMeansPredict ==
  /\ self.cls = "KMeans"
  /\ \E r \in {KMeansClustering_predict(self, X)} : Call("predict", r)
  /\ UNCHANGED lib

KMeansFitPredict ==
  /\ self.cls = "KMeans"
  /\ \E e \in ElbowAnswers(self, X) :
       \E r \in {KMeansClustering_fit_predict(self, X, e)} :
         /\ Call("fit_predict", r)
         /\ lib' = LibAfter(self, X, e, lib.criterions)

KMeansGetOptimal ==
  /\ self.cls = "KMeans"
  /\ \E r \in {KMeansClustering_get_optimal_clusters(self)} : Call("get_optimal", r)
  /\ UNCHANGED lib

GMMFit ==
  /\ self.cls = "GMM"
  /\ \E c \in CriterionAnswers(self, X) :
       \E r \in {GMMClustering_fit(self, X, c)} :
         /\ Call("fit", r)
         /\ lib' = LibAfter(self, X, lib.elbow, c)

GMMPredict ==
  /\ self.cls = "GMM"
  /\ \E r \in {GMMClustering_predict(self, X)} : Call("predict", r)
  /\ UNCHANGED lib

GMMFitPredict ==
  /\ self.cls = "GMM"
  /\ \E c \in CriterionAnswers(self, X) :
       \E r \in {GMMClustering_fit_predict(self, X, c)} :
         /\ Call("fit_predict", r)
         /\ lib' = LibAfter(self, X, lib.elbow, c)

GMMGetOptimal ==
  /\ self.cls = "GMM"
  /\ \E r \in {GMMClustering_get_optimal_components(self)} : Call("get_optimal", r)
  /\ UNCHANGED lib

AggloFit ==
  /\ self.cls = "Agglomerative"
  /\ \E r \in {AgglomerativeClusteringOptimal_fit(self, X)} : Call("fit", r)
  /\ UNCHANGED lib

AggloPredict ==
  /\ self.cls = "Agglomerative"
  /\ \E r \in {AgglomerativeClusteringOptimal_predict(self, X)} : Call("predict", r)
  /\ UNCHANGED lib

AggloFitPredict ==
  /\ self.cls = "Agglomerative"
  /\ \E r \in {AgglomerativeClusteringOptimal_fit_predict(self, X)} : Call("fit_predict", r)
  /\ UNCHANGED lib

AggloGetOptimal ==
  /\ self.cls = "Agglomerative"
  /\ \E r \in {AgglomerativeClusteringOptimal_get_optimal_clusters(self)} : Call("get_optimal", r)
  /\ UNCHANGED lib

Next ==
  \/ KMeansFit
  \/ KMeansPredict
  \/ KMeansFitPredict
  \/ KMeansGetOptimal
  \/ GMMFit
  \/ GMMPredict
  \/ GMMFitPredict
  \/ GMMGetOptimal
  \/ AggloFit
  \/ AggloPredict
  \/ AggloFitPredict
  \/ AggloGetOptimal

Spec == Init /\ [][Next]_vars

----------------------------------------------------------------------------
(* EfficiencyRatioAnalysis.  The constructor runs load_data, calculate_er   *)
(* and tickers_clusters_er in turn; run is the analysis object:             *)
(*   pc           "new", "loaded", "er", "done", or "failed" when a step    *)
(*                raised (the constructor then raises, no object is built)  *)
(*   tickers, init_period, end_period, n_clusters    the arguments          *)
(*   bars         the number of price bars the feed holds for each symbol   *)
(*                (the histories end at the same bar, so the bars of a      *)
(*                shorter history are bars of every longer one)             *)
(*   df_tickers   [columns, nrows]: the aligned close prices                *)
(*   df_er        [index, columns, data]: a data frame, data[i][j] the      *)
(*                value of row index[i] in column columns[j]                *)
(*   clusters_er  the result table, rows <<symbol, mean_er, cluster_label>> *)
(*   error        the message of the exception raised                       *)
(* A mean efficiency ratio, rounded to 5 decimals, is an integer number of  *)
(* units of 0.00001; a mean_er is a pair <<sum, count>>.                    *)

\* Bounds of the analysis runs.
MaxTickers == 2

MaxBars == 3

MaxPeriod == 3

MaxFeat == 1

Symbols == {"A", "B", "C"}

\* max_clusters of KMeansClustering when the caller gives none.
DefaultMaxClusters == 10

MsgConcat == "pandas: No objects to concatenate"

MsgMetatrader == "Failed to load data from Metatrader"

MsgMeanOfNone == "pandas: mean/round of a column of None"

EmptyMatrix == [rows |-> <<>>, den |-> <<>>]

EmptyFrame == [index |-> <<>>, columns |-> <<>>, data |-> <<>>]

EfficiencyRatioAnalysis(tickers, bars, init_period, end_period, n_clusters) ==
  [pc |-> "new", tickers |-> tickers, bars |-> bars,
   init_period |-> init_period, end_period |-> end_period, n_clusters |-> n_clusters,
   df_tickers |-> [columns |-> <<>>, nrows |-> 0],
   df_er |-> EmptyFrame, clusters_er |-> <<>>, error |-> ""]

Fail(r, m) == [r EXCEPT !.pc = "failed", !.error = m]

MinOf(S) == CHOOSE x \in S : \A y \in S : x <= y

MaxOf(S) == CHOOSE x \in S : \A y \in S : x >= y

\* load_data: one Close column per ticker, joined on the timestamps, the
\* rows with a missing price dropped.  The loader raises for a symbol
\* without bars; concat raises for no ticker at all.
load_data(r) ==
  IF r.tickers = <<>> THEN Fail(r, MsgConcat)
  ELSE IF \E i \in 1..Len(r.tickers) : r.bars[r.tickers[i]] = 0
  THEN Fail(r, MsgMetatrader)
  ELSE [r EXCEPT !.pc = "loaded",
                 !.df_tickers = [columns |-> r.tickers,
                                 nrows |-> MinOf({r.bars[r.tickers[i]] :
                                                    i \in 1..Len(r.tickers)})]]

\* Column labels that are kept as they come: a label that occurs twice names
\* two columns.
Distinct_keep_duplicates(cols) == cols

\* The column labels of a frame built by assigning the columns cols one by
\* one: an assignment to an existing label overwrites it.
RECURSIVE Distinct(_)
Distinct(cols) ==
  IF cols = <<>> THEN <<>>
  ELSE LET front == Distinct(SubSeq(cols, 1, Len(cols) - 1))
           last == cols[Len(cols)]
       IN IF \E i \in 1..Len(front) : front[i] = last THEN front
          ELSE Append(front, last)

\* The lookback lengths: range(init_period, end_period).
Lengths(r) == Range(r.init_period, r.end_period)

\* ta.er(v, length).mean() is defined when the series has more than length
\* rows: the ratio needs a price length bars back.
ErDefined(r, length) == r.df_tickers.nrows > length

\* ta.er(v, length) returns None for a series shorter than length.
ErIsNone(r, length) == r.df_tickers.nrows < length

\* calculate_er; er[i][j] is the mean efficiency ratio of the i-th symbol
\* for the j-th length where it is defined, and none_raises tells whether
\* taking the mean of a column of None raises.
calculate_er(r, er, none_raises) ==
  IF Lengths(r) = <<>> THEN Fail(r, MsgConcat)
  ELSE IF none_raises /\ \E j \in 1..Len(Lengths(r)) : ErIsNone(r, Lengths(r)[j])
  THEN Fail(r, MsgMeanOfNone)
  ELSE LET index == Distinct(r.df_tickers.columns)
       IN [r EXCEPT !.pc = "er",
                    !.df_er = [index |-> index,
                               columns |-> [j \in 1..Len(Lengths(r)) |->
                                              <<"period", Lengths(r)[j]>>],
                               data |-> [i \in 1..Len(index) |->
                                          [j \in 1..Len(Lengths(r)) |->
                                             IF ErDefined(r, Lengths(r)[j])
                                             THEN er[i][j] ELSE NaN]]]]

\* The defined values of column j of a frame.
ColValues(df, j) == {df.data[i][j] : i \in 1..Len(df.index)} \ {NaN}

\* (df - df.min()) / (df.max() - df.min()): min and max skip NaN; a cell is
\* NaN where the value is NaN or the column is constant (0 / 0).
MinMaxNormalize(df) ==
  LET n == Len(df.index)
      m == Len(df.columns)
      lo == Eager([j \in 1..m |->
                     IF ColValues(df, j) = {} THEN 0 ELSE MinOf(ColValues(df, j))])
      span == Eager([j \in 1..m |->
                       IF ColValues(df, j) = {} THEN 0
                       ELSE MaxOf(ColValues(df, j)) - MinOf(ColValues(df, j))])
  IN [rows |-> Eager([i \in 1..n |-> Eager([j \in 1..m |->
                  IF df.data[i][j] = NaN \/ span[j] = 0 THEN NaN
                  ELSE df.data[i][j] - lo[j]])]),
      den |-> span]

\* df.iloc[:, :-1]: the frame without its last column.
DropLastColumn(df) ==
  [df EXCEPT !.columns = SubSeq(df.columns, 1, Len(df.columns) - 1),
             !.data = Eager([i \in 1..Len(df.index) |->
                         SubSeq(df.data[i], 1, Len(df.columns) - 1)])]

\* df[name] = values: a new last column.
AddColumn(df, name, values) ==
  [df EXCEPT !.columns = Append(df.columns, name),
             !.data = Eager([i \in 1..Len(df.index) |-> Append(df.data[i], values[i])])]

\* df.mean(axis=1): per row <<sum, count>> of the defined values.
RowMeans(df) ==
  Eager([i \in 1..Len(df.index) |->
     LET defined == SelectSeq(df.data[i], LAMBDA v : v # NaN)
     IN <<SumSeq(defined), Len(defined)>>])

\* The position of the column called name.
ColumnAt(df, name) == CHOOSE j \in 1..Len(df.columns) : df.columns[j] = name

\* A frame whose mean_er is taken over every column, the label column too.
LabelledFrame_mean_with_label(df_er, cluster_labels) ==
  LET labelled == AddColumn(df_er, <<"cluster_label", 0>>, cluster_labels)
  IN AddColumn(labelled, <<"mean_er", 0>>, RowMeans(labelled))

\* self.df_er after the strategy returned cluster_labels: the label
\* column appended, then mean_er, the row means of all columns but the last.
LabelledFrame(df_er, cluster_labels) ==
  LET labelled == AddColumn(df_er, <<"cluster_label", 0>>, cluster_labels)
  IN AddColumn(labelled, <<"mean_er", 0>>, RowMeans(DropLastColumn(labelled)))

\* self.df_er[['symbol', 'mean_er', 'cluster_label']], symbol being the
\* index of the frame.
ClusterTable(df) ==
  [i \in 1..Len(df.index) |->
     <<df.index[i],
       df.data[i][ColumnAt(df, <<"mean_er", 0>>)],
       df.data[i][ColumnAt(df, <<"cluster_label", 0>>)]>>]

\* tickers_clusters_er, given the outcome f of kmeans.fit_predict on the
\* normalized frame.
tickers_clusters_er(r, f) ==
  IF f.raised # "" THEN Fail(r, f.raised)
  ELSE LET df == LabelledFrame(r.df_er, f.ret.labels)
       IN [r EXCEPT !.pc = "done", !.df_er = df, !.clusters_er = ClusterTable(df)]

----------------------------------------------------------------------------
(* The analysis runs as a state machine: one constructor call, its three    *)
(* steps in turn.  self is the KMeansClustering that tickers_clusters_er    *)
(* builds, X the normalized frame it passes to fit_predict.                 *)

\* The ticker lists of at most n symbols.  A symbol may repeat; the symbols
\* are named in the order of their first use (the first ticker is "A", the
\* first one that differs from it "B", ...), and equal symbols are adjacent.
SymbolOrder(a) == CHOOSE k \in 1..3 : <<"A", "B", "C">>[k] = a

RECURSIVE TickerLists(_)
TickerLists(n) ==
  IF n = 0 THEN {<<>>}
  ELSE TickerLists(n - 1) \cup
       {Append(s, a) : s \in {u \in TickerLists(n - 1) : Len(u) = n - 1}, a \in Symbols}

Canonical(s) ==
  /\ s # <<>> => s[1] = "A"
  /\ \A i \in 1..(Len(s) - 1) :
       SymbolOrder(s[i + 1]) \in {SymbolOrder(s[i]), SymbolOrder(s[i]) + 1}

Runs ==
  {EfficiencyRatioAnalysis(t, b, i, e, n) :
     t \in {s \in TickerLists(MaxTickers) : Canonical(s)},
     b \in [Symbols -> 0..MaxBars],
     i \in 1..MaxPeriod, e \in 1..MaxPeriod,
     n \in {None} \cup {Some(k) : k \in 1..MaxTickers}}

InitER ==
  /\ run \in {r \in Runs : \A a \in Symbols :
                (\A i \in 1..Len(r.tickers) : r.tickers[i] # a) => r.bars[a] = 0}
  /\ self = KMeansClustering(DefaultMaxClusters, run.n_clusters)
  /\ X = EmptyMatrix
  /\ op = "new"
  /\ ret = NoRet
  /\ swept = <<>>
  /\ lib = LibInit
  /\ fit_called = FALSE

LoadData ==
  /\ run.pc = "new"
  /\ run' = load_data(run)
  /\ UNCHANGED <<self, X, op, ret, swept, lib, fit_called>>

\* The lengths for which the mean ratio is defined, the smaller ones.
DefinedLengths(r) == SelectSeq(Lengths(r), LAMBDA length : ErDefined(r, length))

CalculateEr ==
  /\ run.pc = "loaded"
  /\ \E er \in [1..Len(Distinct(run.df_tickers.columns)) ->
                  [1..Len(DefinedLengths(run)) -> 0..MaxFeat]],
        none_raises \in {FALSE} \cup
                        {\E j \in 1..Len(Lengths(run)) : ErIsNone(run, Lengths(run)[j])} :
        run' = calculate_er(run, er, none_raises)
  /\ UNCHANGED <<self, X, op, ret, swept, lib, fit_called>>

TickersClustersEr ==
  /\ run.pc = "er"
  /\ \E df_er_norm \in {MinMaxNormalize(run.df_er)} :
       \E e \in ElbowAnswers(self, df_er_norm) :
         \E f \in {KMeansClustering_fit_predict(self, df_er_norm, e)} :
             /\ X' = df_er_norm
             /\ self' = f.self
             /\ op' = "fit_predict"
             /\ ret' = f.ret
             /\ swept' = f.swept
             /\ fit_called' = TRUE
             /\ lib' = LibAfter(self, df_er_norm, e, lib.criterions)
             /\ run' = tickers_clusters_er(run, f)

NextER ==
  \/ LoadData
  \/ CalculateEr
  \/ TickersClustersEr

SpecER == InitER /\ [][NextER]_vars

----------------------------------------------------------------------------
(* Properties of the strategies (specification Spec)                        *)

\* C1: predict on a strategy on which neither fit nor fit_predict was ever
\* called raises the error that names the missing fit call, and fits
\* nothing: the object has no model and no selected count afterwards.
C1_PredictBeforeFitRaises ==
  ~fit_called =>
     /\ IsNone(self.model)
     /\ IsNone(self.optimal_clusters)
     /\ op = "predict" => ret = Raise(MsgFitFirst)

\* A predict on a GMMClustering straight after construction has raised.
C1_Witness ==
  /\ self.cls = "GMM"
  /\ op = "predict"
  /\ ~fit_called
  /\ ret = Raise(MsgFitFirst)
  /\ NRows(X) >= 2

\* What fit_predict(M) returns on the strategy s, the libraries answering
\* what they answered before (the seed is the same).
FitPredictValue(s, M) ==
  CASE s.cls = "KMeans" -> KMeansClustering_fit_predict(s, M, lib.elbow).ret
    [] s.cls = "GMM" -> GMMClustering_fit_predict(s, M, lib.criterions).ret
    [] OTHER -> AgglomerativeClusteringOptimal_fit_predict(s, M).ret

\* C2: a predict(X) that follows a fit(X) which returned gives what
\* fit_predict(X) gives: the cluster labels, one per row of X.
C2_FitPredictIsFitThenPredict ==
  [][(op = "fit" /\ ret = RetNone /\ op' = "predict") =>
       /\ ret' = FitPredictValue(self, X)
       /\ ret'.tag = "labels"
       /\ Len(ret'.labels) = NRows(X)]_vars

\* C3: with a pinned count, every fit sweeps over nothing and asks the
\* libraries for no elbow and no score, the selected count and the count of
\* the estimator built are the pinned one, and get_optimal_clusters /
\* get_optimal_components returns it.
C3_PinnedCountUsedVerbatim ==
  (~IsNone(self.n_clusters) /\ fit_called) =>
     /\ self.optimal_clusters = self.n_clusters
     /\ ~IsNone(self.model)
     /\ Get(self.model).k = self.n_clusters
     /\ lib = LibInit
     /\ op \in {"fit", "fit_predict"} => swept = <<>>
     /\ op = "get_optimal" => ret = RetInt(Get(self.n_clusters))

\* A GMMClustering with a criterion that is neither 'aic' nor 'bic' and a
\* pinned count other than max_components was fitted and asked its count.
C3_Witness ==
  /\ self.cls = "GMM"
  /\ self.criterion = "hqc"
  /\ self.n_clusters = Some(2)
  /\ self.max_clusters = 0
  /\ fit_called
  /\ Get(self.model).fitted
  /\ op = "get_optimal"
  /\ ret = RetInt(2)

\* The smallest count a strategy class may select.
LowestCount(cls) == IF cls = "KMeans" THEN 2 ELSE 1

\* C4: without a pinned count, a fit on a matrix with at least two and at
\* least max_clusters rows does not raise and selects a count in the range of its class:
\* 2..max_clusters for KMeansClustering, 1..max_clusters for the others.
C4_SelectorAlwaysReturnsInRange ==
  (/\ IsNone(self.n_clusters)
   /\ self.criterion \in {"", "aic", "bic"}
   /\ NRows(X) >= 2
   /\ self.max_clusters \in LowestCount(self.cls)..NRows(X)
   /\ op \in {"fit", "fit_predict"}) =>
     /\ ret.tag # "error"
     /\ ~IsNone(self.optimal_clusters)
     /\ Get(self.optimal_clusters) \in LowestCount(self.cls)..self.max_clusters

\* C5: a fit of a GMMClustering without a pinned count and with criterion
\* 'aic' or 'bic' that returns has scored one mixture for every count in
\* 1..max_components, and the count it selected has the minimal score, and
\* is the smallest count that has it.
C5_SmallestMinimizerSelected ==
  (/\ self.cls = "GMM"
   /\ IsNone(self.n_clusters)
   /\ self.criterion \in {"aic", "bic"}
   /\ op \in {"fit", "fit_predict"}
   /\ ret.tag # "error") =>
     /\ swept = [n \in 1..self.max_clusters |-> n]
     /\ DOMAIN lib.criterions = 1..self.max_clusters
     /\ self.optimal_clusters \in {Some(n) : n \in 1..self.max_clusters}
     /\ \A n \in 1..self.max_clusters :
          /\ lib.criterions[Get(self.optimal_clusters)] <= lib.criterions[n]
          /\ n < Get(self.optimal_clusters) =>
               lib.criterions[n] > lib.criterions[Get(self.optimal_clusters)]

\* Three counts were scored, the last two share the minimal score, and the
\* second was selected.
C5_Witness ==
  /\ self.cls = "GMM"
  /\ IsNone(self.n_clusters)
  /\ self.criterion = "bic"
  /\ op = "fit"
  /\ ret = RetNone
  /\ lib.criterions = <<1, 0, 0>>
  /\ self.optimal_clusters = Some(2)

\* The second difference of the curve w at the 0-based index i.
SecondDifference(w, i) == w[i + 3] - 2 * w[i + 2] + w[i + 1]

\* C6: after a fit of an AgglomerativeClusteringOptimal without a pinned
\* count whose WCSS sweep completed, with max_clusters >= 3, the selected
\* count is 2 plus the first 0-based index that minimizes the second
\* difference of the WCSS curve, and lies in 2..max_clusters - 1.
C6_ElbowIsFirstMinimumPlusTwo ==
  (/\ self.cls = "Agglomerative"
   /\ IsNone(self.n_clusters)
   /\ self.max_clusters >= 3
   /\ fit_called
   /\ WcssRuns(self, X)) =>
     LET w == calculate_wcss(self, X)
         last == self.max_clusters - 3
     IN /\ self.optimal_clusters \in {Some(k) : k \in 2..(self.max_clusters - 1)}
        /\ \A i \in 0..last :
             /\ SecondDifference(w, Get(self.optimal_clusters) - 2) <= SecondDifference(w, i)
             /\ i < Get(self.optimal_clusters) - 2 =>
                  SecondDifference(w, i) > SecondDifference(w, Get(self.optimal_clusters) - 2)

\* A sweep over 1..4 selected 3: the second difference is minimal at the
\* index 1, not at the index 0.
C6_Witness ==
  /\ self.cls = "Agglomerative"
  /\ IsNone(self.n_clusters)
  /\ self.max_clusters = 4
  /\ op = "fit"
  /\ ret = RetNone
  /\ self.optimal_clusters = Some(3)

\* C10: a strategy constructed with a max count that is not positive raises
\* on fit and on fit_predict, and fits no estimator.
C10_NonPositiveMaxCountRejected ==
  (self.max_clusters <= 0 /\ op \in {"fit", "fit_predict"}) =>
     /\ ret.tag = "error"
     /\ IsNone(self.model) \/ ~Get(self.model).fitted

----------------------------------------------------------------------------
(* Properties of the analysis run (specification SpecER)                    *)

\* The instruments of the ticker list of a run.
Universe(r) == {r.tickers[i] : i \in 1..Len(r.tickers)}

\* The rows of the final table that name the symbol a.
RowsOf(r, a) == {i \in 1..Len(r.clusters_er) : r.clusters_er[i][1] = a}

\* C7: a run ends failed with an error, or with a table in which every
\* instrument of the ticker list is the symbol of exactly one row and every
\* row names an instrument of the list.
C7_EveryInstrumentExactlyOnce ==
  /\ run.pc = "failed" => run.error # ""
  /\ run.pc = "done" =>
       /\ \A a \in Universe(run) : Cardinality(RowsOf(run, a)) = 1
       /\ \A i \in 1..Len(run.clusters_er) : run.clusters_er[i][1] \in Universe(run)

\* A run over two instruments ended with its table.
C7_Witness ==
  /\ run.pc = "done"
  /\ run.tickers = <<"A", "B">>
  /\ Len(run.clusters_er) = 2
  /\ run.clusters_er[1][3] # run.clusters_er[2][3]

\* The instruments with fewer bars than the largest lookback length.
ShortInstruments(r) == {a \in Universe(r) : r.bars[a] < r.end_period - 1}

\* C8: a run with a lookback range that is not empty over instruments of
\* which exactly one has fewer bars (but some) than the largest lookback
\* length, the others more, ends with the table of exactly the others.
C8_ShortInstrumentExcluded ==
  (/\ run.pc \in {"done", "failed"}
   /\ run.init_period < run.end_period
   /\ Cardinality(ShortInstruments(run)) = 1
   /\ Universe(run) \ ShortInstruments(run) # {}
   /\ \A a \in ShortInstruments(run) : run.bars[a] >= 1
   /\ \A a \in Universe(run) \ ShortInstruments(run) : run.bars[a] > run.end_period - 1) =>
     /\ run.pc = "done"
     /\ {run.clusters_er[i][1] : i \in 1..Len(run.clusters_er)}
          = Universe(run) \ ShortInstruments(run)

\* Whether every mean efficiency ratio of the feature frame is defined.
FeaturesDefined(r) ==
  \A i \in 1..Len(r.df_er.index) : \A j \in 1..Len(Lengths(r)) : r.df_er.data[i][j] # NaN

\* C9: when every feature is defined, whatever columns are constant, the
\* normalized matrix that tickers_clusters_er passed to fit_predict has no
\* NaN.
C9_NoNaNIntoClustering ==
  (op = "fit_predict" /\ FeaturesDefined(run)) => ~HasNaN(X)

\* The number of period columns of the feature frame of a run.
Periods(r) == Len(Lengths(r))

\* C11: the table of a run that ended has one row per row of the normalized
\* matrix X, in the same order; row i names the instrument of row i of the
\* feature frame, its mean_er is the sum of that instrument's period values
\* over the number of period columns (the label is not part of it), and its
\* cluster_label is the i-th label that fit_predict returned.
C11_TableRowMatchesFeatureRow ==
  run.pc = "done" =>
    /\ Len(run.clusters_er) = NRows(X)
    /\ ret.tag = "labels"
    /\ Len(ret.labels) = NRows(X)
    /\ run.df_er.index = Distinct(run.tickers)
    /\ \A i \in 1..NRows(X) :
         /\ run.clusters_er[i][1] = run.df_er.index[i]
         /\ run.clusters_er[i][2]
              = <<SumSeq(SubSeq(run.df_er.data[i], 1, Periods(run))), Periods(run)>>
         /\ run.clusters_er[i][3] = ret.labels[i]
         /\ \A j \in 1..Periods(run) :
              X.rows[i][j] = run.df_er.data[i][j]
                               - MinOf({run.df_er.data[k][j] : k \in 1..NRows(X)})

\* A run over two instruments and two periods ended; the instruments have
\* different means and different labels.
C11_Witness ==
  /\ run.pc = "done"
  /\ Len(run.clusters_er) = 2
  /\ Periods(run) = 2
  /\ run.clusters_er[1][2] # run.clusters_er[2][2]
  /\ run.clusters_er[1][3] # run.clusters_er[2][3]

-----------------------------------------------------------------------------
\* Properties of the strategies, continued (specification Spec)

\* The labels that fit_predict returned give equal rows of X equal labels.
EqualRowsShareLabel ==
  \A i, j \in 1..NRows(X) :
    X.rows[i] = X.rows[j] => ret.labels[i] = ret.labels[j]

\* C12: whenever fit_predict(X) returned labels, whatever the strategy and
\* whatever the cluster count it settled on, two rows of X with identical
\* feature vectors carry the same label.
C12_IdenticalRowsSameCluster ==
  (op = "fit_predict" /\ ret.tag = "labels") => EqualRowsShareLabel

\* What predict(M) on strategy s answers.
PredictValue(s, M) ==
  CASE s.cls = "KMeans" -> KMeansClustering_predict(s, M).ret
    [] s.cls = "GMM" -> GMMClustering_predict(s, M).ret
    [] OTHER -> AgglomerativeClusteringOptimal_predict(s, M).ret

\* What get_optimal_clusters() / get_optimal_components() on s answers.
OptimalCountValue(s) ==
  CASE s.cls = "KMeans" -> KMeansClustering_get_optimal_clusters(s).ret
    [] s.cls = "GMM" -> GMMClustering_get_optimal_components(s).ret
    [] OTHER -> AgglomerativeClusteringOptimal_get_optimal_clusters(s).ret

\* Neither field of strategy s is set.
Unfitted(s) == IsNone(s.model) /\ IsNone(s.optimal_clusters)

\* C13: a fit(X) that raises on a strategy with neither field set leaves
\* both fields None, so that predict(X) raises the "call fit first" error
\* and the optimal-count getter raises too.
C13_FailedFitLeavesUnfitted ==
  [][(Unfitted(self) /\ op' = "fit" /\ ret'.tag = "error")
       => /\ Unfitted(self')
          /\ PredictValue(self', X').tag = "error"
          /\ PredictValue(self', X').msg = MsgFitFirst
          /\ OptimalCountValue(self').tag = "error"]_vars

=============================================================================
